---- MODULE Spec2Model ----
(***************************************************************************)
(* Model of the two scripts of Clip-Videos-Generate-Subtitles:             *)
(*   1_Clip_Videos.py        cuts dive videos into fixed-length clips      *)
(*   2_Generate_Subtitles.py writes one .srt caption file per clip         *)
(*                                                                         *)
(* Time.  A datetime is the number of seconds since 2022-01-01 00:00:00;   *)
(* the model covers the non-leap years 2022 and 2023.  A timedelta is its  *)
(* total number of seconds (an integer, possibly negative); its .seconds   *)
(* attribute is the normalised seconds field, 0..86399.                    *)
(* Text.  A zero-padded digit string is the number it spells together      *)
(* with its fixed field layout: '20220701' is 20220701, '095000' is 95000, *)
(* '2022-07-01 10:00:00' is <<2022,7,1,10,0,0>>.  A file name is the       *)
(* sequence of its '_'-separated parts, the last one split at the '.'.     *)
(***************************************************************************)
EXTENDS Integers, Sequences, FiniteSets, TLC

\* ------------------------------------------------------------------ bounds
MaxVideos == 2      \* files in the Videos folder
MaxClips == 26      \* ffmpeg calls per video explored by the model
MaxRows == 3        \* lines of the tracking csv
MaxSubVideos == 2   \* files in the Video_clips folder

\* ------------------------------------------------------- program constants
Buffer == 30        \* timedelta(seconds=30)
DaySecs == 86400    \* range of timedelta.seconds
None == "None"      \* dict.get of an absent key

\* ------------------------------------------------------------ the calendar
DaysBefore == <<0, 31, 59, 90, 120, 151, 181, 212, 243, 273, 304, 334, 365>>

\* a datetime from its fields
MkDateTime(Y, m, d, H, M, S) ==
    ((Y - 2022) * 365 + DaysBefore[m] + (d - 1)) * DaySecs + H * 3600 + M * 60 + S

Year(t) == 2022 + (t \div DaySecs) \div 365
Month(t) ==
    LET doy == (t \div DaySecs) % 365
    IN  CHOOSE m \in 1..12 : DaysBefore[m] <= doy /\ doy < DaysBefore[m + 1]
Day(t) == ((t \div DaySecs) % 365) - DaysBefore[Month(t)] + 1
Hour(t) == (t % DaySecs) \div 3600
Minute(t) == (t % 3600) \div 60
Second(t) == t % 60

\* datetime.strptime(s, '%Y%m%d %H%M%S'); s = <<'YYYYMMDD', 'HHMMSS'>>
strptime_compact(s) ==
    MkDateTime(s[1] \div 10000, (s[1] \div 100) % 100, s[1] % 100,
               s[2] \div 10000, (s[2] \div 100) % 100, s[2] % 100)

\* datetime.strptime(s, '%Y-%m-%d %H:%M:%S')
strptime_iso(s) == MkDateTime(s[1], s[2], s[3], s[4], s[5], s[6])

\* the text '%Y-%m-%d %H:%M:%S' of a datetime, as the csv files hold it
IsoText(t) == <<Year(t), Month(t), Day(t), Hour(t), Minute(t), Second(t)>>

\* the hour field of strftime with %I (12-hour clock) in place of %H
Hour12(t) == IF Hour(t) % 12 = 0 THEN 12 ELSE Hour(t) % 12
strftime_12h(t) ==
    <<Year(t) * 10000 + Month(t) * 100 + Day(t),
      Hour12(t) * 10000 + Minute(t) * 100 + Second(t)>>

\* starttime.strftime('%Y%m%d_%H%M%S'): <<'YYYYMMDD', 'HHMMSS'>>
strftime(t) ==
    <<Year(t) * 10000 + Month(t) * 100 + Day(t),
      Hour(t) * 10000 + Minute(t) * 100 + Second(t)>>

\* timedelta.seconds
Seconds(td) == td % DaySecs

\* ===================================================== 1_Clip_Videos.py ==
VARIABLES
    clipsize,                  \* minutes, the text 'mm'
    startsDict, endsDict,      \* dive name -> text of the transect start / end
    videofiles,                \* os.listdir(videopath)
    vidx,                      \* position of the for loop in videofiles
    pc,                        \* "for" | "while" | "endwhile" | "exit" | "error"
    transectStartDateTime,     \* buffered
    transectEndDateTime,       \* buffered
    elapsedSecs,               \* timedelta
    elapsedSecs_endtransect,   \* int
    dur,                       \* ffprobe's duration of the current video
    warnings,                  \* printed for the current video
    clips                      \* ffmpeg calls issued for the current video

clipVars == <<clipsize, startsDict, endsDict, videofiles, vidx, pc,
              transectStartDateTime, transectEndDateTime, elapsedSecs,
              elapsedSecs_endtransect, dur, warnings, clips>>

\* the state of 2_Generate_Subtitles.py
VARIABLES
    data,             \* the tracking csv, loaded: one row per line
    hashorder,        \* order in which this process's hash seed iterates a set
    sub_videofiles,   \* os.listdir(videopath): files, each with its duration
    sub_idx,          \* position of the for loop in sub_videofiles
    sub_pc,           \* "for" | "rows" | "endfor" | "exit" | "error"
    sub_dur,          \* ffprobe's duration, in quarter seconds
    vdata,            \* the rows of the clip, columns renamed and rounded
    i,                \* next index of the caption loop
    strlist,          \* the caption entries built so far
    srtfiles,         \* the .srt files in the folder: file stem -> entries
    run,              \* 1: first run of the script, 2: a second run
    firstrun          \* the .srt files the first run left

subVars == <<data, hashorder, sub_videofiles, sub_idx, sub_pc, sub_dur, vdata,
             i, strlist, srtfiles, run, firstrun>>

\* a file name TripID_DiveID_YYYYMMDD_HHMMSS.mp4 of the input folder
FileName(trip, dive, t) ==
    <<trip, dive, Year(t) * 10000 + Month(t) * 100 + Day(t),
      <<Hour(t) * 10000 + Minute(t) * 100 + Second(t), "mp4">> >>

\* parsing of the video file name
tripid(video) == video[1]
divename(video) == video[2]
videostart(video) == <<video[3], video[4][1]>>
videoStartDateTime(video) == strptime_compact(videostart(video))

\* dict.get(key)
Get(dict, key) == IF key \in DOMAIN dict THEN dict[key] ELSE None

video == videofiles[vidx]

\* videoStartDateTime + elapsedSecs
starttime(v, e) == videoStartDateTime(v) + e

\* outputdir/tripid_divename_strstarttime.mp4 (the file name in outputdir)
clipname(v, e) ==
    <<tripid(v), divename(v), strftime(starttime(v, e))[1],
      <<strftime(starttime(v, e))[2], "mp4">> >>

\* the step taken as timedelta(seconds=int(clipsize))
Advance_seconds(e, size) == e + size

\* elapsedSecs + timedelta(minutes=int(clipsize))
Advance(e, size) == e + 60 * size

\* while elapsedSecs.seconds < elapsedSecs_endtransect
LoopCond(e, eEnd) == Seconds(e) < eEnd

\* ---- inputs
Jul01 == MkDateTime(2022, 7, 1, 10, 0, 0)
Jul31 == MkDateTime(2022, 7, 31, 23, 50, 0)
TransectStarts == {Jul01, Jul31}
TransectLengths == {540, 1200, 86280, 86400}
ClipSizes == {10, 60}
\* start of a video relative to the raw transect start
VideoOffsets(len) == {-600, -Buffer, 10, len + Buffer + 300}

Videos(s, len) ==
    {FileName("TR1", "D01", s + o) : o \in VideoOffsets(len)}
      \cup {FileName("TR1", "D99", s - 600)}

\* the sequences of 1..n distinct elements of S
SeqsUpTo(S, n) ==
    UNION {{q \in [1..k -> S] : \A a, b \in 1..k : a # b => q[a] # q[b]} : k \in 1..n}

ClipInit ==
    /\ clipsize \in ClipSizes
    /\ \E s \in TransectStarts, len \in TransectLengths :
         /\ startsDict = [d \in {"D01"} |-> IsoText(s)]
         /\ endsDict = [d \in {"D01"} |-> IsoText(s + len)]
         /\ videofiles \in SeqsUpTo(Videos(s, len), MaxVideos)
    /\ vidx = 1
    /\ pc = "for"
    /\ transectStartDateTime = 0
    /\ transectEndDateTime = 0
    /\ elapsedSecs = 0
    /\ elapsedSecs_endtransect = 0
    /\ dur = 0
    /\ warnings = {}
    /\ clips = <<>>

\* ---- the body of the for loop up to the while loop (lines 94-129)
\* strptime(None, ...) raises TypeError: the script stops
BodyMissingDive ==
    /\ UNCHANGED subVars
    /\ pc = "for"
    /\ Get(startsDict, divename(video)) = None
    /\ pc' = "error"
    /\ clips' = <<>>
    /\ warnings' = {}
    /\ UNCHANGED <<clipsize, startsDict, endsDict, videofiles, vidx,
                   transectStartDateTime, transectEndDateTime, elapsedSecs,
                   elapsedSecs_endtransect, dur>>

Body ==
    /\ UNCHANGED subVars
    /\ pc = "for"
    /\ Get(startsDict, divename(video)) # None
    /\ LET tstart == Get(startsDict, divename(video))
           tend == Get(endsDict, divename(video))
           tS == strptime_iso(tstart)
           tE == strptime_iso(tend)
           vS == videoStartDateTime(video)
       IN  /\ transectStartDateTime' = tS - Buffer
           /\ transectEndDateTime' = tE + Buffer
           /\ elapsedSecs' = transectStartDateTime' - vS
           /\ \E d \in {1800, transectEndDateTime' - transectStartDateTime'} :
                dur' = d
           /\ elapsedSecs_endtransect' = Seconds(transectEndDateTime' - vS)
           /\ warnings' =
                (IF vS > tS THEN {"starts before video"} ELSE {})
                  \cup (IF elapsedSecs_endtransect' > dur'
                        THEN {"ends after video"} ELSE {})
    /\ clips' = <<>>
    /\ pc' = "while"
    /\ UNCHANGED <<clipsize, startsDict, endsDict, videofiles, vidx>>

\* ---- one iteration of the while loop (lines 132-145)
While ==
    /\ UNCHANGED subVars
    /\ pc = "while"
    /\ LoopCond(elapsedSecs, elapsedSecs_endtransect)
    /\ Len(clips) < MaxClips
    /\ clips' = Append(clips, [ss |-> elapsedSecs,
                               t |-> clipsize,
                               clipname |-> clipname(video, elapsedSecs)])
    /\ elapsedSecs' = Advance(elapsedSecs, clipsize)
    /\ UNCHANGED <<clipsize, startsDict, endsDict, videofiles, vidx, pc,
                   transectStartDateTime, transectEndDateTime,
                   elapsedSecs_endtransect, dur, warnings>>

\* ---- the while condition is false
EndWhile ==
    /\ UNCHANGED subVars
    /\ pc = "while"
    /\ ~LoopCond(elapsedSecs, elapsedSecs_endtransect)
    /\ pc' = "endwhile"
    /\ UNCHANGED <<clipsize, startsDict, endsDict, videofiles, vidx,
                   transectStartDateTime, transectEndDateTime, elapsedSecs,
                   elapsedSecs_endtransect, dur, warnings, clips>>

\* ---- the for loop takes the next file, or ends
NextVideo ==
    /\ UNCHANGED subVars
    /\ pc = "endwhile"
    /\ IF vidx < Len(videofiles)
       THEN vidx' = vidx + 1 /\ pc' = "for" /\ clips' = <<>> /\ warnings' = {}
       ELSE vidx' = vidx /\ pc' = "exit" /\ UNCHANGED <<clips, warnings>>
    /\ UNCHANGED <<clipsize, startsDict, endsDict, videofiles,
                   transectStartDateTime, transectEndDateTime, elapsedSecs,
                   elapsedSecs_endtransect, dur>>

ClipNext == BodyMissingDive \/ Body \/ While \/ EndWhile \/ NextVideo


\* ------------------------------------------- parsing in 2_Generate_Subtitles.py
sub_tripid(v) == v[1]
sub_divename(v) == v[2]
sub_videostart(v) == <<v[3], v[4][1]>>
\* pd.to_datetime(videostart, format='%Y%m%d_%H%M%S')
sub_videoStartDateTime(v) == strptime_compact(sub_videostart(v))

\* ================================================ 2_Generate_Subtitles.py ==

\* names, after names.insert(1, 'Time'); a name is its '_'-separated tokens
names ==
    << <<"Datetime">>, <<"Time">>, <<"Dive", "Name">>,
       <<"ROV", "Longitude", "loess">>, <<"ROV", "Latitude", "loess">>,
       <<"Depth", "m">>, <<"Speed", "kts">>, <<"Altitude", "m">> >>

\* re.sub('ROV_|loess', '', n)
RECURSIVE StripTokens(_)
StripTokens(n) ==
    IF n = <<>> THEN <<>>
    ELSE IF Head(n) = "ROV" /\ Len(n) > 1 THEN StripTokens(Tail(n))
    ELSE <<IF Head(n) = "loess" THEN "" ELSE Head(n)>> \o StripTokens(Tail(n))

\* re.sub('_.*', '', n)
CutAtUnderscore(n) == Head(n)

newnames == [j \in DOMAIN names |-> CutAtUnderscore(StripTokens(names[j]))]

\* r = re.compile('.*Lat|.*Lon|.*Time'); r.match(label)
StdPattern(label) == label \in {"Latitude", "Longitude", "Time"}

stdfields == SelectSeq(newnames, StdPattern)

Range(f) == {f[x] : x \in DOMAIN f}

\* list(s) of a set s of strings, under a hash order
ListOfSet(s, order) == SelectSeq(order, LAMBDA x : x \in s)

\* list(set(newnames) - set(stdfields + ['Dive', 'Datetime']))
othercols(order) ==
    ListOfSet(Range(newnames) \ (Range(stdfields) \cup {"Dive", "Datetime"}), order)

\* the column of a label
Col(label) == CHOOSE j \in DOMAIN newnames : newnames[j] = label

\* numpy's round to a multiple of u (half to even), in units of u
Round(x, u) ==
    LET q == x \div u
        r == x % u
    IN  IF 2 * r < u THEN q
        ELSE IF 2 * r > u THEN q + 1
        ELSE IF q % 2 = 0 THEN q ELSE q + 1

\* one line of the csv file -> one row of data (lines 60-68): Datetime parsed,
\* Time = Datetime.dt.time; positions and depths in millionths and hundredths
LoadRow(line) ==
    << strptime_iso(line.Datetime),
       <<Hour(strptime_iso(line.Datetime)), Minute(strptime_iso(line.Datetime)),
         Second(strptime_iso(line.Datetime))>>,
       line.Dive_Name, line.lon, line.lat, line.depth, line.speed, line.alt >>

\* the rounding of lines 110-117 on one row: stdfields to 5 decimals (Time is
\* not numeric and stays), the other columns to 1 decimal
RoundRow(row) ==
    [j \in DOMAIN row |->
        IF newnames[j] \in Range(stdfields) \ {"Time"} THEN Round(row[j], 10)
        ELSE IF newnames[j] \in {"Dive", "Datetime", "Time"} THEN row[j]
        ELSE Round(row[j], 10)]

\* videoStartDateTime + pd.Timedelta(seconds=int(dur)), without the buffer
videoEndDateTime_nobuffer(start, d) == start + (d \div 4)

\* dur = float(...) + 1; videoStartDateTime + pd.Timedelta(seconds=int(dur))
videoEndDateTime(start, d) == start + ((d + 4) \div 4)

\* divedata, then vdata: rows of the dive inside the clip, in order
SelectRows(rows, dive, start, end) ==
    SelectSeq(SelectSeq(rows, LAMBDA r : r[3] = dive),
              LAMBDA r : r[1] >= start /\ r[1] <= end)

\* vdata['elapsed'].astype(str).str.split(' ').str[-1]: 'H:M:S' of 'D days H:M:S'
elapsedstr(row, start) ==
    LET elapsed == row[1] - start
    IN  <<Hour(Seconds(elapsed)), Minute(Seconds(elapsed)), Second(Seconds(elapsed))>>

\* the loop over every row
LoopIndex_all(vd) == 0..(Len(vd) - 1)

\* vdata.iloc[:-1].index
LoopIndex(vd) == 0..(Len(vd) - 2)

\* row j (0-based) of vdata
Row(vd, j) == vd[j + 1]

\* the lines appended for index j
Entry(vd, j, start, order) ==
    [index |-> j + 1,
     from  |-> elapsedstr(Row(vd, j), start),
     to    |-> elapsedstr(Row(vd, j + 1), start),
     std   |-> [k \in DOMAIN stdfields |-> <<stdfields[k], Row(vd, j)[Col(stdfields[k])]>>],
     other |-> [k \in DOMAIN othercols(order) |->
                  <<othercols(order)[k], Row(vd, j)[Col(othercols(order)[k])]>>]]

sub_video == sub_videofiles[sub_idx].name

\* video.split('.')[0] + '.srt'
sfile(v) == <<v[1], v[2], v[3], <<v[4][1], "srt">> >>

\* ---- inputs
T0 == MkDateTime(2022, 7, 1, 10, 0, 0)
CsvLine(dive, t, k) ==
    [Datetime |-> IsoText(t), Dive_Name |-> dive,
     lon |-> -126000000 + 1234 * k + 5, lat |-> 49000000 + 2345 * k + 4,
     depth |-> 1000 + 15 * k, speed |-> 50 + 3 * k, alt |-> 120 + 7 * k]
CsvLines ==
    {CsvLine("D01", T0, 1), CsvLine("D01", T0 + 5, 2), CsvLine("D01", T0 + 11, 3),
     CsvLine("D02", T0 + 5, 4)}
ClipFiles ==
    {[name |-> FileName("TR1", "D01", T0), duration |-> 19],
     [name |-> FileName("TR1", "D01", T0), duration |-> 40],
     [name |-> FileName("TR1", "D01", T0 + 5), duration |-> 40],
     [name |-> FileName("TR1", "D99", T0), duration |-> 40]}
HashOrders ==
    {<<"Depth", "Speed", "Altitude">>, <<"Depth", "Altitude", "Speed">>,
     <<"Speed", "Depth", "Altitude">>, <<"Speed", "Altitude", "Depth">>,
     <<"Altitude", "Depth", "Speed">>, <<"Altitude", "Speed", "Depth">>}

\* the sequences of 0..n distinct elements of S
DistinctSeqs(S, n) ==
    UNION {{q \in [1..k -> S] : \A a, b \in 1..k : a # b => q[a] # q[b]} : k \in 0..n}

SubInit ==
    /\ \E csv \in DistinctSeqs(CsvLines, MaxRows) :
         data = [j \in DOMAIN csv |-> LoadRow(csv[j])]
    /\ hashorder \in HashOrders
    /\ sub_videofiles \in
         {q \in DistinctSeqs(ClipFiles, MaxSubVideos) :
            /\ Len(q) >= 1
            /\ \A a, b \in DOMAIN q : a # b => q[a].name # q[b].name}
    /\ sub_idx = 1
    /\ sub_pc = "for"
    /\ sub_dur = 0
    /\ vdata = <<>>
    /\ i = 0
    /\ strlist = <<>>
    /\ srtfiles = <<>>
    /\ run = 1
    /\ firstrun = <<>>

\* ---- the body of the for loop up to the caption loop (lines 80-124)
SubBody ==
    /\ UNCHANGED clipVars
    /\ sub_pc = "for"
    /\ sub_dur' = sub_videofiles[sub_idx].duration
    /\ LET start == sub_videoStartDateTime(sub_video)
           end == videoEndDateTime(start, sub_dur')
           rows == SelectRows(data, sub_divename(sub_video), start, end)
       IN  vdata' = [j \in DOMAIN rows |-> RoundRow(rows[j])]
    /\ strlist' = <<>>
    /\ i' = 0
    /\ sub_pc' = "rows"
    /\ UNCHANGED <<data, hashorder, sub_videofiles, sub_idx, srtfiles, run, firstrun>>

\* ---- one iteration of the caption loop (lines 127-137); vdata[...][i+1] of
\* an index that is not in vdata raises KeyError
SubRow ==
    /\ UNCHANGED clipVars
    /\ sub_pc = "rows"
    /\ i \in LoopIndex(vdata)
    /\ IF i + 1 \in 0..(Len(vdata) - 1)
       THEN /\ strlist' = Append(strlist,
                   Entry(vdata, i, sub_videoStartDateTime(sub_video), hashorder))
            /\ i' = i + 1
            /\ sub_pc' = sub_pc
       ELSE /\ sub_pc' = "error"
            /\ UNCHANGED <<strlist, i>>
    /\ UNCHANGED <<data, hashorder, sub_videofiles, sub_idx, sub_dur, vdata,
                   srtfiles, run, firstrun>>

\* ---- the caption file is written (lines 139-143)
SubWrite ==
    /\ UNCHANGED clipVars
    /\ sub_pc = "rows"
    /\ i \notin LoopIndex(vdata)
    /\ srtfiles' = [n \in DOMAIN srtfiles \cup {sfile(sub_video)} |->
                      IF n = sfile(sub_video) THEN strlist ELSE srtfiles[n]]
    /\ sub_pc' = "endfor"
    /\ UNCHANGED <<data, hashorder, sub_videofiles, sub_idx, sub_dur, vdata, i,
                   strlist, run, firstrun>>

\* ---- the for loop takes the next file, or ends
SubNextVideo ==
    /\ UNCHANGED clipVars
    /\ sub_pc = "endfor"
    /\ IF sub_idx < Len(sub_videofiles)
       THEN sub_idx' = sub_idx + 1 /\ sub_pc' = "for"
       ELSE sub_idx' = sub_idx /\ sub_pc' = "exit"
    /\ UNCHANGED <<data, hashorder, sub_videofiles, sub_dur, vdata, i, strlist,
                   srtfiles, run, firstrun>>

\* ---- the .srt files are moved out of the folder (line 44) and the script is
\* run again on the same csv file and clips: a new process, a new hash seed
Rerun ==
    /\ UNCHANGED clipVars
    /\ sub_pc = "exit"
    /\ run = 1
    /\ run' = 2
    /\ firstrun' = srtfiles
    /\ srtfiles' = <<>>
    /\ hashorder' \in HashOrders
    /\ sub_idx' = 1
    /\ sub_pc' = "for"
    /\ UNCHANGED <<data, sub_videofiles, sub_dur, vdata, i, strlist>>

SubNext == SubBody \/ SubRow \/ SubWrite \/ SubNextVideo \/ Rerun

\* the caption script has not been started
SubInitIdle ==
    /\ data = <<>>
    /\ hashorder = <<>>
    /\ sub_videofiles = <<>>
    /\ sub_idx = 1
    /\ sub_pc = "idle"
    /\ sub_dur = 0
    /\ vdata = <<>>
    /\ i = 0
    /\ strlist = <<>>
    /\ srtfiles = <<>>
    /\ run = 1
    /\ firstrun = <<>>

\* the clip script has not been started
ClipInitIdle ==
    /\ clipsize = 10
    /\ startsDict = <<>>
    /\ endsDict = <<>>
    /\ videofiles = <<>>
    /\ vidx = 1
    /\ pc = "idle"
    /\ transectStartDateTime = 0
    /\ transectEndDateTime = 0
    /\ elapsedSecs = 0
    /\ elapsedSecs_endtransect = 0
    /\ dur = 0
    /\ warnings = {}
    /\ clips = <<>>

vars == <<clipVars, subVars>>

\* the clip script alone
Init == ClipInit /\ SubInitIdle
Spec == Init /\ [][ClipNext]_vars

\* the caption script alone
SubSpecInit == SubInit /\ ClipInitIdle
SubSpec == SubSpecInit /\ [][SubNext]_vars

\* ================================================ properties, 1_Clip_Videos
rawStart == strptime_iso(startsDict[divename(video)])
rawEnd == strptime_iso(endsDict[divename(video)])
vStart == videoStartDateTime(video)
ClipLen == 60 * clipsize
Window == (rawEnd + Buffer) - (rawStart - Buffer)
Ceil(a, b) == (a + b - 1) \div b
Offsets == [k \in 1..Len(clips) |-> clips[k].ss]

\* C1: a video that starts at the buffered transect start and is as long as
\* the buffered window W yields exactly ceil(W / L) ffmpeg calls, at offsets
\* 0, L, 2L, ..., each with duration L.
C1_CeilBoundaries ==
    (pc = "endwhile" /\ vStart = rawStart - Buffer /\ dur = Window /\ Window > 0)
      => /\ Len(clips) = Ceil(Window, ClipLen)
         /\ \A k \in 1..Len(clips) :
              clips[k].ss = (k - 1) * ClipLen /\ clips[k].t = clipsize

\* C2: for every processed video of a logged dive the clips cover the
\* buffered window: the first clip starts at rawStart - 30 s and the last
\* clip nominally ends at or after rawEnd + 30 s, wherever the video starts.
C2_CoversWindow ==
    pc = "endwhile"
      => /\ Len(clips) >= 1
         /\ clips[1].ss = (rawStart - Buffer) - vStart
         /\ vStart + clips[Len(clips)].ss + ClipLen >= rawEnd + Buffer

\* C3: the elapsed time to the buffered transect end and the elapsed value
\* the while condition tests are the true durations (no wrap at 24 hours):
\* for a video that starts no later than the buffered transect start, the
\* loop condition and the 'ends after the video' check agree with the
\* unwrapped ones, also for spans of 24 hours or more.
C3_NoWrap ==
    (pc \in {"while", "endwhile"} /\ vStart <= rawStart - Buffer)
      => /\ elapsedSecs_endtransect = (rawEnd + Buffer) - vStart
         /\ LoopCond(elapsedSecs, elapsedSecs_endtransect)
              <=> (elapsedSecs < (rawEnd + Buffer) - vStart)
         /\ ("ends after video" \in warnings)
              <=> ((rawEnd + Buffer) - vStart > dur)

\* C8: every clip name parses, with the caption script's parser, to the
\* video's trip and dive and to the start time videoStart + offset.
C8_NameRoundTrip ==
    \A k \in 1..Len(clips) :
        /\ sub_tripid(clips[k].clipname) = tripid(video)
        /\ sub_divename(clips[k].clipname) = divename(video)
        /\ sub_videoStartDateTime(clips[k].clipname) = vStart + clips[k].ss

\* a video has been cut into at least two clips, the second of which starts
\* in the afternoon and on a later month than the video
C8_Witness ==
    /\ pc = "endwhile"
    /\ Len(clips) >= 2
    /\ \E k \in 1..Len(clips) :
         /\ Hour(vStart + clips[k].ss) >= 13
         /\ sub_videoStartDateTime(clips[k].clipname) = vStart + clips[k].ss
    /\ Month(vStart + clips[Len(clips)].ss) # Month(vStart)

C9_Example ==
    /\ clipsize = 10
    /\ startsDict["D01"] = <<2022, 7, 1, 10, 0, 0>>
    /\ endsDict["D01"] = <<2022, 7, 1, 10, 20, 0>>
    /\ video = <<"TR1", "D01", 20220701, <<95000, "mp4">> >>
    /\ dur = 1800

\* C9 as written: the example yields exactly two clips, at 570 s and 1170 s.
C9_TwoClips ==
    (C9_Example /\ pc = "endwhile") => Offsets = <<570, 1170>>

\* C9 (amended): in the example the first offset is 570 s, the elapsed time
\* at the buffered transect end is 1830 s, and the loop issues exactly three
\* clips, at 570 s, 1170 s and 1770 s.
C9_ThreeClips ==
    (C9_Example /\ pc \in {"while", "endwhile"})
      => /\ elapsedSecs_endtransect = 1830
         /\ Len(clips) = 0 => elapsedSecs = 570
         /\ Len(clips) <= 3
         /\ \A k \in 1..Len(clips) : clips[k].ss = <<570, 1170, 1770>>[k]
         /\ pc = "endwhile" => Offsets = <<570, 1170, 1770>>

C9_Witness == C9_Example /\ pc = "endwhile" /\ Len(clips) = 3

\* C10: the while loop ends after finitely many ffmpeg calls.  The loop
\* condition reads only elapsedSecs.seconds and elapsedSecs_endtransect, and
\* the step is a fixed amount, so the loop ends if and only if it never
\* tests a value of elapsedSecs.seconds it has already passed with.
C10_LoopEnds ==
    pc = "while"
      => \A k \in 1..Len(clips) : Seconds(clips[k].ss) # Seconds(elapsedSecs)

\* ========================================== properties, 2_Generate_Subtitles
ClipStart == sub_videoStartDateTime(sub_video)
Max(a, b) == IF a >= b THEN a ELSE b
\* seconds of an 'HH:MM:SS' text
OffsetOf(hms) == hms[1] * 3600 + hms[2] * 60 + hms[3]
\* the rows of the clip's dive with
\* clipStart <= timestamp <= clipStart + probed duration + 1 s
Selected ==
    SelectSeq(data, LAMBDA r :
        /\ r[3] = sub_divename(sub_video)
        /\ ClipStart <= r[1]
        /\ 4 * (r[1] - ClipStart) <= sub_dur + 4)

\* C4: with N rows selected for a clip the caption loop builds exactly
\* max(N - 1, 0) entries, numbered 1, 2, ..., N - 1 in order; with 0 or 1
\* rows the file is written empty; no error is raised.
C4_EntryCount ==
    /\ sub_pc # "error"
    /\ sub_pc \in {"rows", "endfor"}
         => /\ \A k \in 1..Len(strlist) : strlist[k].index = k
            /\ Len(strlist) <= Max(Len(vdata) - 1, 0)
    /\ sub_pc = "endfor"
         => /\ Len(strlist) = Max(Len(vdata) - 1, 0)
            /\ sfile(sub_video) \in DOMAIN srtfiles
            /\ srtfiles[sfile(sub_video)] = strlist

\* a clip with three selected rows has been written with two entries
C4_Witness ==
    /\ sub_pc = "endfor"
    /\ Len(vdata) = 3
    /\ Len(srtfiles[sfile(sub_video)]) = 2

\* C5: the rows of a clip are exactly the rows of its dive inside
\* [clipStart, clipStart + probed duration + 1 s], in input order; entry k
\* runs from timestamp(row k) - clipStart to timestamp(row k+1) - clipStart
\* and shows the values of row k.
C5_Selection ==
    sub_pc \in {"rows", "endfor"}
      => /\ Len(vdata) = Len(Selected)
         /\ \A k \in 1..Len(vdata) : vdata[k] = RoundRow(Selected[k])
         /\ \A k \in 1..Len(strlist) :
              /\ OffsetOf(strlist[k].from) = Selected[k][1] - ClipStart
              /\ OffsetOf(strlist[k].to) = Selected[k + 1][1] - ClipStart
              /\ \A f \in Range(strlist[k].std) \cup Range(strlist[k].other) :
                   f[2] = RoundRow(Selected[k])[Col(f[1])]
              /\ {f[1] : f \in Range(strlist[k].std) \cup Range(strlist[k].other)}
                   = Range(newnames) \ {"Dive", "Datetime"}

\* a 10.0 s clip has been captioned from a csv file in which a row of
\* another dive and a row before the clip were left out and the last row
\* kept lies exactly 11 s after the clip start; the rows are not in
\* chronological order
C5_Witness ==
    /\ sub_pc = "endfor"
    /\ sub_dur = 40
    /\ Len(strlist) >= 1
    /\ Len(data) > Len(vdata)
    /\ \E k \in 1..Len(vdata) : vdata[k][1] = ClipStart + 11
    /\ \E k \in 1..Len(strlist) : OffsetOf(strlist[k].to) < OffsetOf(strlist[k].from)

\* C6: two runs on the same csv file, field list and clips write the same
\* caption files, byte for byte.
C6_Deterministic ==
    (run = 2 /\ sub_pc = "exit") => srtfiles = firstrun

\* C7: a clip whose dive has no row in the tracking data is not processed
\* to the end: no caption file is written for it.
C7_MissingKeyFails ==
    (sub_pc \in {"rows", "endfor"}
       /\ \A k \in 1..Len(data) : data[k][3] # sub_divename(sub_video))
      => sub_pc # "endfor" /\ sfile(sub_video) \notin DOMAIN srtfiles
====
